---- MODULE Spec2Model ----
(***************************************************************************)
(* Model of mcp-neo4j/src/http_wrapper.py: the FastAPI wrapper that        *)
(* exposes get_neo4j_schema, read_neo4j_cypher and write_neo4j_cypher over *)
(* one shared Neo4j driver handle.                                         *)
(*                                                                         *)
(* Python values are tagged records.  A Python str is a sequence of        *)
(* one-character strings; a literal that the program only ever compares or *)
(* emits whole (a fixed error message, the "Neo4j Error: " prefix) is kept *)
(* as one element of that sequence.                                        *)
(***************************************************************************)
EXTENDS Integers, Sequences, FiniteSets, TLC

(* ---------------------------------------------------------------------- *)
(* Bounds                                                                 *)
(* ---------------------------------------------------------------------- *)
\* number of requests handled concurrently in one process lifetime
MaxReq == 2
\* longest generated query text (over QueryAlphabet)
MaxQueryLen == 3

Requests == 1..MaxReq

(* ---------------------------------------------------------------------- *)
(* Python values                                                          *)
(* ---------------------------------------------------------------------- *)
None == [type |-> "NoneType"]
PyStr(s) == [type |-> "str", v |-> s]
PyInt(n) == [type |-> "int", v |-> n]
PyDict(f) == [type |-> "dict", v |-> f]
PyList(s) == [type |-> "list", v |-> s]

EmptyMap == [k \in {} |-> None]

\* Python truthiness, as used by `if not query`
Truthy(x) ==
    CASE x.type = "NoneType" -> FALSE
      [] x.type = "str"      -> Len(x.v) > 0
      [] x.type = "int"      -> x.v # 0
      [] x.type = "dict"     -> DOMAIN x.v # {}
      [] x.type = "list"     -> Len(x.v) > 0

\* dict.get(key, default)
dict_get(d, key, default) == IF key \in DOMAIN d.v THEN d.v[key] ELSE default

(* ---------------------------------------------------------------------- *)
(* Strings: str.upper() and the `in` operator                             *)
(* ---------------------------------------------------------------------- *)
LowerCase == <<"a","b","c","d","e","f","g","h","i","j","k","l","m",
               "n","o","p","q","r","s","t","u","v","w","x","y","z">>
UpperCase == <<"A","B","C","D","E","F","G","H","I","J","K","L","M",
               "N","O","P","Q","R","S","T","U","V","W","X","Y","Z">>

upper_char(c) ==
    IF \E i \in 1..26 : LowerCase[i] = c
    THEN UpperCase[CHOOSE i \in 1..26 : LowerCase[i] = c]
    ELSE c

\* the text compared as it was sent
upper_missing(s) == s

\* str.upper()
upper(s) == [i \in 1..Len(s) |-> upper_char(s[i])]

\* Python `sub in s` for strings: sub occurs at some offset of s
str_in(sub, s) ==
    \E i \in 0..(Len(s) - Len(sub)) : SubSeq(s, i + 1, i + Len(sub)) = sub

\* any(pred(x) for x in seq)
any_keyword_in(keywords, text) ==
    \E k \in 1..Len(keywords) : str_in(keywords[k], text)

(* ---------------------------------------------------------------------- *)
(* Literals of the program                                                *)
(* ---------------------------------------------------------------------- *)
KW_MERGE  == <<"M","E","R","G","E">>
KW_CREATE == <<"C","R","E","A","T","E">>
KW_SET    == <<"S","E","T">>
KW_DELETE == <<"D","E","L","E","T","E">>
KW_REMOVE == <<"R","E","M","O","V","E">>
KW_ADD    == <<"A","D","D">>

\* the list without its last keyword
write_keywords_read_short == <<KW_MERGE, KW_CREATE, KW_SET, KW_DELETE, KW_REMOVE>>

\* write_keywords of read_neo4j_cypher
write_keywords_read == <<KW_MERGE, KW_CREATE, KW_SET, KW_DELETE, KW_REMOVE, KW_ADD>>

\* write_keywords of write_neo4j_cypher
write_keywords_write == <<KW_MERGE, KW_CREATE, KW_SET, KW_DELETE, KW_REMOVE, KW_ADD>>

get_schema_query == <<"CALL apoc.meta.schema();">>

ProcedureNotFound ==
    <<"N","e","o",".","C","l","i","e","n","t","E","r","r","o","r",".",
      "P","r","o","c","e","d","u","r","e",".",
      "P","r","o","c","e","d","u","r","e","N","o","t","F","o","u","n","d">>

MsgQueryRequired == <<"Query parameter is required">>
MsgOnlyMatch     == <<"Only MATCH queries are allowed for read-query">>
MsgOnlyWrite     == <<"Only write queries are allowed for write-query">>
MsgNoApoc        == <<"Neo4j instance does not have the APOC plugin installed. Please install and enable the APOC plugin.">>
Neo4jErrorPrefix == <<"Neo4j Error: ">>

\* os.getenv("NEO4J_DATABASE", "neo4j"), with the variable unset
DefaultDatabase == PyStr(<<"neo4j">>)

(* ---------------------------------------------------------------------- *)
(* Request / response models                                              *)
(* ---------------------------------------------------------------------- *)
\* class ToolRequest(BaseModel): arguments: Optional[Dict[str, Any]] = {}
\* Validation of a JSON body, as FastAPI performs it for a handler parameter
\* of this type: the default is copied for each instance.
ToolRequest(body) ==
    IF body.type # "dict" THEN [valid |-> FALSE, arguments |-> None]
    ELSE IF "arguments" \notin DOMAIN body.v
         THEN [valid |-> TRUE, arguments |-> PyDict(EmptyMap)]
    ELSE IF body.v["arguments"].type \in {"NoneType", "dict"}
         THEN [valid |-> TRUE, arguments |-> body.v["arguments"]]
    ELSE [valid |-> FALSE, arguments |-> None]

\* class ToolResponse(BaseModel)
ToolResponse(success, data, error) ==
    [success |-> success, data |-> data, error |-> error]

\* what a handler segment does: return a response, await the driver, raise
Return(resp) == [kind |-> "return", response |-> resp]
Await(call)  == [kind |-> "await", call |-> call]
Raise(text)  == [kind |-> "raise", text |-> text]

\* neo4j_driver.execute_query(query, parameters_=, routing_control=, database_=)
execute_query(query, parameters, routing, database) ==
    [query |-> query, parameters_ |-> parameters,
     routing_control |-> routing, database_ |-> database]

\* str(e) of AttributeError for a missing method
\* RoutingControl.READ / RoutingControl.WRITE as each handler passes it
schema_routing_control == "READ"
read_routing_control   == "READ"
\* the routing of the read endpoint, copied unchanged
write_routing_control_copied == "READ"
write_routing_control  == "WRITE"

AttributeErrorText(x, attr) == <<"'", x.type, "' object has no attribute '", attr, "'">>

(* ---------------------------------------------------------------------- *)
(* get_neo4j_schema                                                       *)
(* ---------------------------------------------------------------------- *)
\* the remediation message with the driver's text appended
schema_except_appended(text) ==
    IF str_in(ProcedureNotFound, text)
    THEN Return(ToolResponse(FALSE, None, PyStr(MsgNoApoc \o text)))
    ELSE Return(ToolResponse(FALSE, None, PyStr(Neo4jErrorPrefix \o text)))

\* except Exception as e, lines 117-123
schema_except(text) ==
    IF str_in(ProcedureNotFound, text)
    THEN Return(ToolResponse(FALSE, None, PyStr(MsgNoApoc)))
    ELSE Return(ToolResponse(FALSE, None, PyStr(Neo4jErrorPrefix \o text)))

\* lines 100-109, up to the await
schema_begin(arguments) ==
    Await(execute_query(PyStr(get_schema_query), None, schema_routing_control,
                        DefaultDatabase))

\* lines 111-115, after the await
schema_result(result) ==
    IF Truthy(result) /\ Len(result.v) > 0
    THEN Return(ToolResponse(TRUE, dict_get(result.v[1], "value", PyDict(EmptyMap)), None))
    ELSE Return(ToolResponse(TRUE, PyDict(EmptyMap), None))

(* ---------------------------------------------------------------------- *)
(* read_neo4j_cypher                                                      *)
(* ---------------------------------------------------------------------- *)
\* an error response that also carries a payload
read_except_with_data(text) ==
    Return(ToolResponse(FALSE, PyList(<<>>), PyStr(Neo4jErrorPrefix \o text)))

\* except Exception as e, lines 151-153
read_except(text) ==
    Return(ToolResponse(FALSE, None, PyStr(Neo4jErrorPrefix \o text)))

\* line 138: any(keyword in query.upper() for keyword in write_keywords)
read_gate_rejects(query) == any_keyword_in(write_keywords_read, upper(query))

\* lines 128-147, up to the await
read_begin(args) ==
    IF args.type = "NoneType" THEN Raise(AttributeErrorText(args, "get"))
    ELSE LET query    == dict_get(args, "query", None)
             params   == dict_get(args, "params", PyDict(EmptyMap))
             database == dict_get(args, "database", DefaultDatabase)
         IN  IF ~Truthy(query)
             THEN Return(ToolResponse(FALSE, None, PyStr(MsgQueryRequired)))
             ELSE IF query.type # "str" THEN Raise(AttributeErrorText(query, "upper"))
             ELSE IF read_gate_rejects(query.v)
             THEN Return(ToolResponse(FALSE, None, PyStr(MsgOnlyMatch)))
             ELSE Await(execute_query(query, params, read_routing_control, database))

\* line 149, after the await
read_result(result) == Return(ToolResponse(TRUE, result, None))

(* ---------------------------------------------------------------------- *)
(* write_neo4j_cypher                                                     *)
(* ---------------------------------------------------------------------- *)
\* except Exception as e, lines 190-192
write_except(text) ==
    Return(ToolResponse(FALSE, None, PyStr(Neo4jErrorPrefix \o text)))

\* the condition of the read endpoint, copied unchanged
write_gate_rejects_copied(query) == any_keyword_in(write_keywords_write, upper(query))

\* line 168: not any(keyword in query.upper() for keyword in write_keywords)
write_gate_rejects(query) == ~any_keyword_in(write_keywords_write, upper(query))

\* lines 158-176, up to the await
write_begin(args) ==
    IF args.type = "NoneType" THEN Raise(AttributeErrorText(args, "get"))
    ELSE LET query    == dict_get(args, "query", None)
             params   == dict_get(args, "params", PyDict(EmptyMap))
             database == dict_get(args, "database", DefaultDatabase)
         IN  IF ~Truthy(query)
             THEN Return(ToolResponse(FALSE, None, PyStr(MsgQueryRequired)))
             ELSE IF query.type # "str" THEN Raise(AttributeErrorText(query, "upper"))
             ELSE IF write_gate_rejects(query.v)
             THEN Return(ToolResponse(FALSE, None, PyStr(MsgOnlyWrite)))
             ELSE Await(execute_query(query, params, write_routing_control, database))

\* lines 178-188, after the await: summary.counters -> counters
write_result(summary) ==
    Return(ToolResponse(TRUE,
        PyDict([nodesCreated         |-> summary.counters.nodes_created,
                nodesDeleted         |-> summary.counters.nodes_deleted,
                relationshipsCreated |-> summary.counters.relationships_created,
                relationshipsDeleted |-> summary.counters.relationships_deleted,
                propertiesSet        |-> summary.counters.properties_set,
                labelsAdded          |-> summary.counters.labels_added,
                labelsRemoved        |-> summary.counters.labels_removed]),
        None))

(* ---------------------------------------------------------------------- *)
(* State                                                                  *)
(* ---------------------------------------------------------------------- *)
VARIABLES
    lifecycle,     \* "init", "serving", "failed" (startup raised), "stopped"
    neo4j_driver,  \* the global: None or the driver handle
    mcp_server,    \* the global: None or the MCP server object
    handle,        \* the driver object: how often it was created and closed
    req,           \* per request: position of its handler task and its data
    driver_calls   \* every execute_query call issued, in order

vars == <<lifecycle, neo4j_driver, mcp_server, handle, req, driver_calls>>

Driver    == [type |-> "AsyncDriver"]
McpServer == [type |-> "FastMCP"]

IdleRequest ==
    [pc |-> "idle", endpoint |-> "", body |-> None, call |-> None,
     ncalls |-> 0, answer |-> None, status |-> 0, response |-> None]

Init ==
    /\ lifecycle = "init"
    /\ neo4j_driver = None
    /\ mcp_server = None
    /\ handle = [created |-> 0, closed |-> 0]
    /\ req = [r \in Requests |-> IdleRequest]
    /\ driver_calls = <<>>

(* ---------------------------------------------------------------------- *)
(* Lifecycle: initialize / startup_event / shutdown_event                 *)
(* ---------------------------------------------------------------------- *)
\* AsyncGraphDatabase.driver(...) raises: nothing is assigned, startup fails
startup_event_driver_raises ==
    /\ lifecycle = "init"
    /\ lifecycle' = "failed"
    /\ UNCHANGED <<neo4j_driver, mcp_server, handle, req, driver_calls>>

\* the driver is assigned, then create_mcp_server(...) raises
startup_event_server_raises ==
    /\ lifecycle = "init"
    /\ neo4j_driver' = Driver
    /\ handle' = [handle EXCEPT !.created = @ + 1]
    /\ lifecycle' = "failed"
    /\ UNCHANGED <<mcp_server, req, driver_calls>>

\* initialize() completes: the service becomes ready
startup_event ==
    /\ lifecycle = "init"
    /\ neo4j_driver' = Driver
    /\ handle' = [handle EXCEPT !.created = @ + 1]
    /\ mcp_server' = McpServer
    /\ lifecycle' = "serving"
    /\ UNCHANGED <<req, driver_calls>>

\* the handle left open
close_missing(h) == h

\* await neo4j_driver.close()
close(h) == [h EXCEPT !.closed = @ + 1]

\* if neo4j_driver: await neo4j_driver.close()
shutdown_event ==
    /\ lifecycle = "serving"
    /\ handle' = IF neo4j_driver # None THEN close(handle) ELSE handle
    /\ lifecycle' = "stopped"
    /\ UNCHANGED <<neo4j_driver, mcp_server, req, driver_calls>>

(* ---------------------------------------------------------------------- *)
(* Handler tasks                                                          *)
(* ---------------------------------------------------------------------- *)
\* the arguments of the request that arrived first, kept in a shared object
arguments_of_shared(r, request) ==
    IF r = 1 THEN request.arguments ELSE ToolRequest(req[1].body).arguments

\* request.arguments, as the handler of request r reads it
arguments_of(r, request) == request.arguments

\* ids are given in order of arrival
NextRequest(r) ==
    /\ req[r].pc = "idle"
    /\ \A s \in Requests : s < r => req[s].pc # "idle"

\* The framework rejects a body that ToolRequest does not validate: the
\* handler is not run and the client gets 422 with a validation detail.
Rejected(endpoint, body) ==
    [IdleRequest EXCEPT !.pc = "done", !.endpoint = endpoint, !.body = body,
                        !.status = 422]

\* the handler returned resp: the framework answers 200 with resp as body
Responded(rq, resp) ==
    [rq EXCEPT !.pc = "done", !.status = 200, !.response = resp]

\* a request arrives while the service is ready
Accepting(r) ==
    /\ lifecycle = "serving"
    /\ NextRequest(r)

\* an exception left the handler: the framework answers 500
Escaped(rq) ==
    [rq EXCEPT !.pc = "done", !.status = 500]

\* first segment of a handler: from the call to its return or first await
Begin(r, endpoint, body, step) ==
    /\ LET rq == [IdleRequest EXCEPT !.endpoint = endpoint, !.body = body]
       IN  IF step.kind = "return"
           THEN /\ req' = [req EXCEPT ![r] = Responded(rq, step.response)]
                /\ UNCHANGED driver_calls
           ELSE IF step.kind = "raise"
           THEN /\ req' = [req EXCEPT ![r] = Escaped(rq)]
                /\ UNCHANGED driver_calls
           ELSE /\ req' = [req EXCEPT ![r] =
                              [rq EXCEPT !.pc = "awaiting", !.call = step.call,
                                         !.ncalls = @ + 1]]
                /\ driver_calls' = Append(driver_calls,
                              [req |-> r, endpoint |-> endpoint, call |-> step.call])
    /\ UNCHANGED <<lifecycle, neo4j_driver, mcp_server, handle>>

\* a body the framework does not hand to the handler
RejectBody(r, bodies) ==
    /\ Accepting(r)
    /\ \E endpoint \in {"get_neo4j_schema", "read_neo4j_cypher", "write_neo4j_cypher"},
          body \in bodies :
        /\ ~ToolRequest(body).valid
        /\ req' = [req EXCEPT ![r] = Rejected(endpoint, body)]
    /\ UNCHANGED <<lifecycle, neo4j_driver, mcp_server, handle, driver_calls>>

\* try: ... except Exception as e: of each handler
schema_try(step) == IF step.kind = "raise" THEN schema_except(step.text) ELSE step
read_try(step)   == IF step.kind = "raise" THEN read_except(step.text) ELSE step
\* the handler without its except clause
write_try_missing(step) == step
write_try(step)  == IF step.kind = "raise" THEN write_except(step.text) ELSE step

get_neo4j_schema(r, bodies) ==
    /\ Accepting(r)
    /\ \E body \in bodies :
        /\ ToolRequest(body).valid
        /\ Begin(r, "get_neo4j_schema", body,
                 schema_try(schema_begin(arguments_of(r, ToolRequest(body)))))

read_neo4j_cypher(r, bodies) ==
    /\ Accepting(r)
    /\ \E body \in bodies :
        /\ ToolRequest(body).valid
        /\ Begin(r, "read_neo4j_cypher", body,
                 read_try(read_begin(arguments_of(r, ToolRequest(body)))))

write_neo4j_cypher(r, bodies) ==
    /\ Accepting(r)
    /\ \E body \in bodies :
        /\ ToolRequest(body).valid
        /\ Begin(r, "write_neo4j_cypher", body,
                 write_try(write_begin(arguments_of(r, ToolRequest(body)))))

\* second segment: the driver answers request r's own call (a value or an
\* exception) and the handler runs to its return
Resume(r, answer, step) ==
    /\ req' = [req EXCEPT ![r] =
                  IF step.kind = "raise"
                  THEN Escaped([@ EXCEPT !.answer = answer])
                  ELSE Responded([@ EXCEPT !.answer = answer], step.response)]
    /\ UNCHANGED <<lifecycle, neo4j_driver, mcp_server, handle, driver_calls>>

Awaiting(r, endpoint) ==
    /\ req[r].pc = "awaiting"
    /\ req[r].endpoint = endpoint

get_neo4j_schema_resume(r, answers) ==
    /\ Awaiting(r, "get_neo4j_schema")
    /\ \E answer \in answers :
        Resume(r, answer,
               schema_try(IF answer.kind = "raise" THEN answer
                          ELSE schema_result(answer.value)))

read_neo4j_cypher_resume(r, answers) ==
    /\ Awaiting(r, "read_neo4j_cypher")
    /\ \E answer \in answers :
        Resume(r, answer,
               read_try(IF answer.kind = "raise" THEN answer
                        ELSE read_result(answer.value)))

write_neo4j_cypher_resume(r, answers) ==
    /\ Awaiting(r, "write_neo4j_cypher")
    /\ \E answer \in answers :
        Resume(r, answer,
               write_try(IF answer.kind = "raise" THEN answer
                         ELSE write_result(answer.value)))

(* ---------------------------------------------------------------------- *)
(* Inputs                                                                 *)
(* ---------------------------------------------------------------------- *)
\* letters from which query texts are generated: SET and ADD in both cases
QueryAlphabet == {"S", "s", "E", "e", "T", "t", "A", "D", "d"}

GeneratedQueries ==
    UNION {[1..n -> QueryAlphabet] : n \in 0..MaxQueryLen}

Sp == <<" ">>
T_MATCH  == <<"M","A","T","C","H">>
T_RETURN == <<"R","E","T","U","R","N">>
T_n      == <<"(","n",")">>

SampleQueries ==
    { T_MATCH \o Sp \o T_n \o Sp \o T_RETURN \o Sp \o <<"n">>,
      KW_CREATE \o Sp \o T_n \o Sp \o T_RETURN \o Sp \o <<"n">>,
      <<"c","r","e","a","t","e">> \o Sp \o T_n,
      T_MATCH \o Sp \o T_n \o Sp \o <<"n",".","c","r","e","a","t","e","d">>,
      <<"M","e","r","g","e">> \o Sp \o T_n,
      T_MATCH \o Sp \o T_n \o Sp \o KW_DELETE \o Sp \o <<"n">>,
      T_MATCH \o Sp \o T_n \o Sp \o <<"r","e","m","o","v","e">> \o Sp \o <<"n",".","x">>,
      T_MATCH \o Sp \o T_n \o Sp \o <<"o","f","f","s","e","t">>,
      <<"M","E","R","G">>,
      <<"C","R","E","A","T">>,
      <<"D","E","L","E","T">>,
      <<"R","E","M","O","V">>,
      <<"S","E"," ","T">> }

\* values a JSON body can carry under "query"
OddQueryValues == {None, PyInt(0), PyInt(5), PyList(<<>>), PyList(<<PyInt(1)>>)}

ParamsValues   == {PyDict(EmptyMap), PyDict("name" :> PyStr(<<"x">>)), None}
DatabaseValues == {PyStr(<<"neo4j">>), PyStr(<<"other">>)}

Body(arguments) == PyDict("arguments" :> arguments)

\* bodies ToolRequest validates without a usable mapping, and bodies it rejects
BodyOmitted   == PyDict(EmptyMap)
BodyNull      == Body(None)
BodyEmpty     == Body(PyDict(EmptyMap))
BodyNoQuery   == Body(PyDict("params" :> PyDict(EmptyMap)))
InvalidBodies == {Body(PyList(<<>>)), Body(PyStr(<<"q">>)), PyList(<<>>)}

QueryOnly(q) == Body(PyDict("query" :> q))
QueryFull(q, p, d) == Body(PyDict("query" :> q @@ "params" :> p @@ "database" :> d))

\* bodies of the single-request specification
GateBodies ==
    {BodyOmitted, BodyNull, BodyEmpty, BodyNoQuery} \cup InvalidBodies
    \cup {QueryOnly(PyStr(q)) : q \in GeneratedQueries \cup SampleQueries}
    \cup {QueryOnly(q) : q \in OddQueryValues}
    \cup {QueryFull(PyStr(q), p, d) :
            q \in {<<>>, KW_SET, <<"a","d","d">>, T_MATCH}, p \in ParamsValues,
            d \in DatabaseValues}

\* bodies of the concurrent specification
Bodies ==
    {BodyOmitted, BodyNull, Body(PyList(<<>>)),
     QueryOnly(PyStr(T_MATCH)), QueryOnly(PyStr(KW_SET)),
     QueryFull(PyStr(<<"a","d","d">>), PyDict(EmptyMap), PyStr(<<"other">>))}

\* str(e) of the exceptions the driver raises
ExcTexts ==
    { ProcedureNotFound,
      <<"{","c","o","d","e",":"," ">> \o ProcedureNotFound \o <<"}">>,
      SubSeq(ProcedureNotFound, 1, Len(ProcedureNotFound) - 1),
      SubSeq(ProcedureNotFound, 2, Len(ProcedureNotFound)),
      <<"n","e","o",".">> \o SubSeq(ProcedureNotFound, 5, Len(ProcedureNotFound)),
      <<"S","y","n","t","a","x","E","r","r","o","r">>,
      <<>> }

Raised(texts) == {[kind |-> "raise", text |-> t] : t \in texts}
Result(values) == {[kind |-> "result", value |-> v] : v \in values}

Counters(a, b, c, d, e, f, g) ==
    [counters |-> [nodes_created |-> a, nodes_deleted |-> b,
                   relationships_created |-> c, relationships_deleted |-> d,
                   properties_set |-> e, labels_added |-> f, labels_removed |-> g]]

SchemaValue == PyDict("Person" :> PyDict("type" :> PyStr(<<"node">>)))

SchemaAnswers ==
    Result({PyList(<<>>), PyList(<<PyDict("value" :> SchemaValue)>>),
            PyList(<<PyDict("other" :> PyInt(1))>>)})
    \cup Raised(ExcTexts)
ReadAnswers ==
    Result({PyList(<<>>), PyList(<<PyDict("n" :> PyInt(1))>>)}) \cup Raised(ExcTexts)
WriteAnswers ==
    Result({Counters(1, 0, 0, 0, 0, 1, 0), Counters(1, 2, 3, 4, 5, 6, 7)})
    \cup Raised(ExcTexts)

\* the driver's answers in the concurrent specification
FewSchemaAnswers ==
    Result({PyList(<<PyDict("value" :> SchemaValue)>>)}) \cup Raised({ProcedureNotFound})
FewReadAnswers ==
    Result({PyList(<<>>)}) \cup Raised({ProcedureNotFound})
FewWriteAnswers ==
    Result({Counters(1, 0, 0, 0, 0, 1, 0)}) \cup Raised({ProcedureNotFound})

(* ---------------------------------------------------------------------- *)
(* Specifications                                                         *)
(* ---------------------------------------------------------------------- *)
\* the process with MaxReq concurrent requests
Next ==
    \/ startup_event_driver_raises
    \/ startup_event_server_raises
    \/ startup_event
    \/ shutdown_event
    \/ \E r \in Requests : RejectBody(r, Bodies)
    \/ \E r \in Requests : get_neo4j_schema(r, Bodies)
    \/ \E r \in Requests : read_neo4j_cypher(r, Bodies)
    \/ \E r \in Requests : write_neo4j_cypher(r, Bodies)
    \/ \E r \in Requests : get_neo4j_schema_resume(r, FewSchemaAnswers)
    \/ \E r \in Requests : read_neo4j_cypher_resume(r, FewReadAnswers)
    \/ \E r \in Requests : write_neo4j_cypher_resume(r, FewWriteAnswers)

Spec == Init /\ [][Next]_vars

\* the process with one request drawn from the full input sets
NextGate ==
    \/ startup_event_driver_raises
    \/ startup_event_server_raises
    \/ startup_event
    \/ shutdown_event
    \/ RejectBody(1, GateBodies)
    \/ get_neo4j_schema(1, GateBodies)
    \/ read_neo4j_cypher(1, GateBodies)
    \/ write_neo4j_cypher(1, GateBodies)
    \/ get_neo4j_schema_resume(1, SchemaAnswers)
    \/ read_neo4j_cypher_resume(1, ReadAnswers)
    \/ write_neo4j_cypher_resume(1, WriteAnswers)

SpecGate == Init /\ [][NextGate]_vars

TypeOK ==
    /\ lifecycle \in {"init", "serving", "failed", "stopped"}
    /\ neo4j_driver \in {None, Driver}
    /\ mcp_server \in {None, McpServer}
    /\ \A r \in Requests : req[r].pc \in {"idle", "awaiting", "done"}

(* ---------------------------------------------------------------------- *)
(* Vocabulary of the properties                                           *)
(* ---------------------------------------------------------------------- *)
Started(r) == req[r].pc # "idle"
Done(r)    == req[r].pc = "done"
OnRead(r)  == Started(r) /\ req[r].endpoint = "read_neo4j_cypher"
OnWrite(r) == Started(r) /\ req[r].endpoint = "write_neo4j_cypher"
OnSchema(r) == Started(r) /\ req[r].endpoint = "get_neo4j_schema"

\* the body is a JSON object whose "arguments" is a mapping, absent or null
BodyAccepted(body) ==
    /\ body.type = "dict"
    /\ "arguments" \in DOMAIN body.v => body.v["arguments"].type \in {"dict", "NoneType"}

HasMapping(body) ==
    /\ body.type = "dict"
    /\ "arguments" \in DOMAIN body.v
    /\ body.v["arguments"].type = "dict"

\* the entry of the request's arguments under key, None when there is none
Argument(body, key) ==
    IF HasMapping(body) /\ key \in DOMAIN body.v["arguments"].v
    THEN body.v["arguments"].v[key]
    ELSE None

QueryOf(r) == Argument(req[r].body, "query")

\* the request carries a non-empty query text
HasQueryText(r) == QueryOf(r).type = "str" /\ Len(QueryOf(r).v) > 0

\* no non-empty query is present: no mapping, no entry, null or empty text
NoQuery(r) == QueryOf(r) = None \/ QueryOf(r) = PyStr(<<>>)

\* c is the letter k in either case
SameLetter(c, k) ==
    c = k \/ \E i \in 1..26 : UpperCase[i] = k /\ LowerCase[i] = c

SixKeywords == {KW_MERGE, KW_CREATE, KW_SET, KW_DELETE, KW_REMOVE, KW_ADD}

\* the text contains one of the six keywords at some offset, in any case
ClassifiedWrite(q) ==
    \E kw \in SixKeywords : \E i \in 0..(Len(q) - Len(kw)) :
        \A j \in 1..Len(kw) : SameLetter(q[i + j], kw[j])

\* text contains the marker of the missing procedure
NamesProcedureNotFound(text) ==
    \E i \in 1..Len(text) : \A j \in 1..Len(ProcedureNotFound) :
        i + j - 1 <= Len(text) /\ text[i + j - 1] = ProcedureNotFound[j]

Failure(msg) == [success |-> FALSE, data |-> None, error |-> PyStr(msg)]

\* the driver raised on the request's call
DriverRaised(r) == req[r].answer # None /\ req[r].answer.kind = "raise"

(* ---------------------------------------------------------------------- *)
(* Properties                                                             *)
(* ---------------------------------------------------------------------- *)

\* C1: a request to the read endpoint whose query text contains one of the
\* six keywords (any case, any offset) is answered 200 with
\* success=false, error "Only MATCH queries are allowed for read-query",
\* whatever its params and database are, and no driver call is made for it.
C1_ReadRejectsWrite ==
    \A r \in Requests :
        (OnRead(r) /\ QueryOf(r).type = "str" /\ ClassifiedWrite(QueryOf(r).v))
        => /\ Done(r)
           /\ req[r].status = 200
           /\ req[r].response = Failure(MsgOnlyMatch)
           /\ req[r].ncalls = 0

C1_Witness ==
    \E r \in Requests :
        /\ OnRead(r) /\ Done(r)
        /\ QueryOf(r) = PyStr(<<"a","d","d">>)
        /\ Argument(req[r].body, "params") = None
        /\ Argument(req[r].body, "database") = PyStr(<<"other">>)
        /\ req[r].response = Failure(MsgOnlyMatch)

\* C2 as stated: every request to the write endpoint whose query text is not
\* write-classified is answered "Only write queries are allowed for
\* write-query".
C2_Original ==
    \A r \in Requests :
        (OnWrite(r) /\ QueryOf(r).type = "str" /\ ~ClassifiedWrite(QueryOf(r).v))
        => /\ Done(r)
           /\ req[r].response = Failure(MsgOnlyWrite)

\* C2: a request to the write endpoint whose query is a non-empty text that
\* is not write-classified is answered 200 with success=false, error "Only
\* write queries are allowed for write-query", and no driver call is made.
C2_WriteRejectsRead ==
    \A r \in Requests :
        (OnWrite(r) /\ HasQueryText(r) /\ ~ClassifiedWrite(QueryOf(r).v))
        => /\ Done(r)
           /\ req[r].status = 200
           /\ req[r].response = Failure(MsgOnlyWrite)
           /\ req[r].ncalls = 0

C2_Witness ==
    \E r \in Requests :
        /\ OnWrite(r) /\ Done(r)
        /\ HasQueryText(r) /\ ~ClassifiedWrite(QueryOf(r).v)
        /\ Len(QueryOf(r).v) > 3
        /\ req[r].response = Failure(MsgOnlyWrite)

\* C3: on both query endpoints a non-empty query text passes or fails the
\* gate by the same classification: the read endpoint rejects it with its
\* gate message iff the text contains one of the six keywords in any case at
\* any offset, and the write endpoint rejects it with its gate message iff
\* the text contains none; the one issues a driver call exactly when the
\* other would not.
C3_SameClassifier ==
    \A r \in Requests :
        HasQueryText(r) =>
            /\ OnRead(r) =>
                /\ (req[r].response = Failure(MsgOnlyMatch)) <=> ClassifiedWrite(QueryOf(r).v)
                /\ (req[r].ncalls = 1) <=> ~ClassifiedWrite(QueryOf(r).v)
            /\ OnWrite(r) =>
                /\ (req[r].response = Failure(MsgOnlyWrite)) <=> ~ClassifiedWrite(QueryOf(r).v)
                /\ (req[r].ncalls = 1) <=> ClassifiedWrite(QueryOf(r).v)

\* a MATCH query that only names a property "created" passes the write gate
C3_Witness ==
    \E r \in Requests :
        /\ OnWrite(r)
        /\ HasQueryText(r)
        /\ Len(QueryOf(r).v) > 5
        /\ SubSeq(QueryOf(r).v, 1, 5) = T_MATCH
        /\ str_in(<<"c","r","e","a","t","e","d">>, QueryOf(r).v)
        /\ req[r].ncalls = 1

\* C4 as stated: on both query endpoints, a body that ToolRequest accepts
\* (arguments a mapping, absent or null) and that carries no non-empty query
\* is answered success=false, error "Query parameter is required", and no
\* driver call is made.
C4_Claim ==
    \A r \in Requests :
        ((OnRead(r) \/ OnWrite(r)) /\ BodyAccepted(req[r].body) /\ NoQuery(r))
        => /\ Done(r)
           /\ req[r].response = Failure(MsgQueryRequired)
           /\ req[r].ncalls = 0

\* C5: every ToolResponse returned by a tool endpoint has success=true with
\* error null, or success=false with a message in error and data null.
C5_ResponseShape ==
    \A r \in Requests :
        (Done(r) /\ req[r].response # None) =>
            /\ req[r].response.success = TRUE => req[r].response.error = None
            /\ req[r].response.success = FALSE =>
                /\ req[r].response.error # None
                /\ req[r].response.error.type = "str"
                /\ req[r].response.data = None

C5_Witness ==
    \E r \in Requests :
        /\ Done(r) /\ DriverRaised(r)
        /\ req[r].response # None
        /\ req[r].response.success = FALSE

\* validation error, gate error, database error
ValidationError(r) == (OnRead(r) \/ OnWrite(r)) /\ ~HasQueryText(r)
GateError(r) ==
    /\ HasQueryText(r)
    /\ \/ OnRead(r) /\ ClassifiedWrite(QueryOf(r).v)
       \/ OnWrite(r) /\ ~ClassifiedWrite(QueryOf(r).v)
AnyError(r) == ValidationError(r) \/ GateError(r) \/ DriverRaised(r)

\* C6 as stated: every completed request, whatever its error kind, has status
\* 200 and, when it is an error of one of the three kinds or has an invalid
\* shape, a body with success=false and an error message.
C6_Original ==
    \A r \in Requests :
        Done(r) =>
            /\ req[r].status = 200
            /\ req[r].response # None
            /\ (AnyError(r) \/ ~BodyAccepted(req[r].body)) =>
                   req[r].response.success = FALSE /\ req[r].response.error # None

\* C6: for a body that ToolRequest accepts, the three error kinds (no usable
\* query, gate mismatch, exception raised by the driver) all complete with
\* status 200 and a body with success=false and an error message, and no
\* exception leaves the handler; a body that ToolRequest rejects never
\* reaches the handler and is answered 422 without a ToolResponse.
C6_UniformErrors ==
    \A r \in Requests :
        Done(r) =>
            /\ BodyAccepted(req[r].body) =>
                /\ req[r].status = 200
                /\ req[r].response # None
                /\ AnyError(r) =>
                    /\ req[r].response.success = FALSE
                    /\ req[r].response.error # None
            /\ ~BodyAccepted(req[r].body) =>
                /\ req[r].status = 422
                /\ req[r].response = None
                /\ req[r].ncalls = 0

\* a driver exception on the write endpoint, reported in the body with 200
C6_Witness ==
    \E r \in Requests :
        /\ Done(r) /\ OnWrite(r) /\ DriverRaised(r)
        /\ BodyAccepted(req[r].body)
        /\ req[r].status = 200
        /\ req[r].response.success = FALSE
        /\ req[r].response.error # None

\* C7: when the driver raises, the schema endpoint answers success=false with
\* the fixed APOC message if the exception text contains
\* "Neo.ClientError.Procedure.ProcedureNotFound" and with "Neo4j Error: " +
\* text otherwise; the read and write endpoints always answer "Neo4j Error: "
\* + text.
C7_ApocMessage ==
    \A r \in Requests :
        (Done(r) /\ DriverRaised(r)) =>
            LET text == req[r].answer.text
            IN  /\ req[r].status = 200
                /\ req[r].response =
                      IF OnSchema(r) /\ NamesProcedureNotFound(text)
                      THEN Failure(MsgNoApoc)
                      ELSE Failure(Neo4jErrorPrefix \o text)

C7_Witness ==
    \E r \in Requests :
        /\ Done(r) /\ OnSchema(r) /\ DriverRaised(r)
        /\ Len(req[r].answer.text) > Len(ProcedureNotFound)
        /\ req[r].response = Failure(MsgNoApoc)

\* calls issued for request r
CallsOf(r) == {i \in DOMAIN driver_calls : driver_calls[i].req = r}

\* C8: every driver call issued by the read endpoint uses READ routing and
\* carries the request's non-empty, not write-classified query; every call
\* issued by the write endpoint uses WRITE routing and carries the request's
\* write-classified query; every call of the schema endpoint is the fixed
\* introspection query with READ routing.  A request issues at most one
\* call, and only for a body that passed validation and the gate.
C8_CallDiscipline ==
    /\ \A i \in DOMAIN driver_calls :
        LET c == driver_calls[i].call
            r == driver_calls[i].req
        IN  /\ driver_calls[i].endpoint = req[r].endpoint
            /\ BodyAccepted(req[r].body)
            /\ OnRead(r) =>
                /\ c.routing_control = "READ"
                /\ HasQueryText(r) /\ c.query = QueryOf(r)
                /\ ~ClassifiedWrite(c.query.v)
            /\ OnWrite(r) =>
                /\ c.routing_control = "WRITE"
                /\ HasQueryText(r) /\ c.query = QueryOf(r)
                /\ ClassifiedWrite(c.query.v)
            /\ OnSchema(r) =>
                /\ c.routing_control = "READ"
                /\ c.query = PyStr(<<"CALL apoc.meta.schema();">>)
    /\ \A r \in Requests :
        /\ Cardinality(CallsOf(r)) <= 1
        /\ Cardinality(CallsOf(r)) = req[r].ncalls

C8_Witness ==
    /\ Len(driver_calls) = MaxReq
    /\ \E i \in DOMAIN driver_calls : driver_calls[i].endpoint = "write_neo4j_cypher"
    /\ \E i \in DOMAIN driver_calls : driver_calls[i].endpoint = "read_neo4j_cypher"
    /\ \A r \in Requests : Done(r)

StepOf(r) == req'[r] # req[r]

\* C10: a step of one request's handler changes neither another request's
\* state nor the shared handle; the call a request issues carries its own
\* query, params and database; two requests to the same endpoint with equal
\* bodies get equal calls, and with equal driver answers equal responses.
C10_Independent ==
    /\ [][\A r \in Requests : StepOf(r) =>
            /\ \A q \in Requests \ {r} : req'[q] = req[q]
            /\ neo4j_driver' = neo4j_driver
            /\ mcp_server' = mcp_server
            /\ handle' = handle]_vars
    /\ [](\A r \in Requests :
            (req[r].ncalls = 1 /\ ~OnSchema(r)) =>
                /\ req[r].call.query = QueryOf(r)
                /\ req[r].call.parameters_ =
                      IF HasMapping(req[r].body) /\ "params" \in DOMAIN req[r].body.v["arguments"].v
                      THEN Argument(req[r].body, "params") ELSE PyDict(EmptyMap)
                /\ req[r].call.database_ =
                      IF HasMapping(req[r].body) /\ "database" \in DOMAIN req[r].body.v["arguments"].v
                      THEN Argument(req[r].body, "database") ELSE PyStr(<<"neo4j">>))
    /\ [](\A r, q \in Requests :
            (Started(r) /\ Started(q) /\ req[r].endpoint = req[q].endpoint
               /\ req[r].body = req[q].body) =>
                /\ req[r].call = req[q].call
                /\ (Done(r) /\ Done(q) /\ req[r].answer = req[q].answer) =>
                      /\ req[r].response = req[q].response
                      /\ req[r].status = req[q].status)

\* two requests with a defaulted arguments mapping that both went through
\* their driver call
C10_Witness ==
    \E r, q \in Requests :
        /\ r # q
        /\ Done(r) /\ Done(q)
        /\ req[r].body = BodyOmitted /\ req[q].body = BodyOmitted
        /\ req[r].endpoint = req[q].endpoint
        /\ req[r].answer # None /\ req[r].answer = req[q].answer

====
